---- MODULE Spec2Model ----
(***************************************************************************)
(* Model of ReadDepthCalculator.py: the ReadDepthCalculator class, its     *)
(* list-valued fields (Python lists are objects on a heap, so two engines  *)
(* may hold the same list), and the interval-delta / prefix-sum depth      *)
(* computation of calculateDepth.                                          *)
(***************************************************************************)
EXTENDS Integers, Sequences, FiniteSets, TLC

\* ------------------------------------------------------------------ bounds
MaxStart == 1      \* largest start coordinate supplied by a caller
MaxLen   == 2      \* largest length supplied by a caller
MaxNeg   == 1      \* magnitude of the most negative start/length supplied
MaxReads == 2      \* cap on the number of pairs held by one reads list
MaxLoci  == 1      \* cap on the number of entries held by one loci list

Starts    == (0 - MaxNeg) .. MaxStart
Lengths   == (0 - MaxNeg) .. MaxLen
Intervals == Starts \X Lengths

SeqsUpTo(S, n) == UNION {[1..k -> S] : k \in 0..n}

\* lists an engine may be constructed with, and lists handed to addReads
ReadLists  == SeqsUpTo(Intervals, MaxReads)
ReadInputs == SeqsUpTo(Intervals, 1)

\* inputs of the two-engine specification
SharedReadLists  == {<<>>, <<<<1, 1>>>>}
SharedReadInputs == {<<<<0, 1>>>>, <<<<1, 1>>, <<0, 1>>>>}
SharedLociLists  == {<<>>}
SharedLociInputs == {<<0>>}
QueryLoci        == {0 - 1, 0, 2}

Engines == {1, 2}
\* list objects: <<0, f>> is the default-argument list of __init__ for field f,
\* <<i, f>> the list the caller of engine i passed for field f
Refs == (Engines \cup {0}) \X {"reads", "loci"}

VARIABLES
    heap,   \* list object -> its contents
    self,   \* engine -> [reads: ref, loci: ref, depths: sequence]
    last    \* the last call made: operation, engine, outcome, argument, value

vars == <<heap, self, last>>

\* ------------------------------------------------------- pure computations

\* key=itemgetter(0,1): tuples (start, length) compared lexicographically
itemgetterLeqStartOnly(a, b) == a[1] <= b[1]

itemgetterLeq(a, b) == a[1] < b[1] \/ (a[1] = b[1] /\ a[2] <= b[2])

RECURSIVE insertStable(_, _)
insertStable(x, s) ==
    IF s = <<>> THEN <<x>>
    ELSE IF itemgetterLeq(Head(s), x)
         THEN <<Head(s)>> \o insertStable(x, Tail(s))
         ELSE <<x>> \o s

\* list.sort(key=...): stable, ascending
RECURSIVE sortReads(_)
sortReads(rs) ==
    IF rs = <<>> THEN <<>>
    ELSE insertStable(rs[Len(rs)], sortReads(SubSeq(rs, 1, Len(rs) - 1)))

RECURSIVE maxLoop(_, _, _)
maxLoop(rs, k, maximum) ==
    IF k > Len(rs) THEN maximum
    ELSE maxLoop(rs, k + 1,
                 IF rs[k][1] + rs[k][2] > maximum THEN rs[k][1] + rs[k][2]
                 ELSE maximum)

getMaxPosition(rs) == maxLoop(rs, 1, 0)

zeros(n) == [p \in 1..n |-> 0]

newTallyNoPlusOne(rs) == zeros(getMaxPosition(rs))

\* tally = [0] * (self.__getMaxPosition(self.reads)+1)
newTally(rs) == zeros(getMaxPosition(rs) + 1)

\* Python list subscript: a negative index counts from the end
pyIndex(n, k) == IF k < 0 THEN k + n ELSE k
pyInRange(n, k) == pyIndex(n, k) >= 0 /\ pyIndex(n, k) < n

\* tally[k] += d ; position p of the Python list is element p+1 here
bump(t, k, d) == [t EXCEPT ![pyIndex(Len(t), k) + 1] = @ + d]

\* the loop "for pair in self.reads": st = [tally, ok]; an IndexError stops
\* the loop where it is, with the updates made so far in place
RECURSIVE trackLoop(_, _, _)
trackLoop(rs, k, st) ==
    IF k > Len(rs) \/ ~st.ok THEN st
    ELSE LET s == rs[k][1]
             e == rs[k][1] + rs[k][2]
             n == Len(st.tally)
         IN  IF ~pyInRange(n, s) THEN [st EXCEPT !.ok = FALSE]
             ELSE LET t1 == bump(st.tally, s, 1)
                  IN  IF ~pyInRange(n, e) THEN [tally |-> t1, ok |-> FALSE]
                      ELSE trackLoop(rs, k + 1, [tally |-> bump(t1, e, 0 - 1), ok |-> TRUE])

RECURSIVE sumLoopNoPrior(_, _, _)
sumLoopNoPrior(t, i, prior) ==
    IF i > Len(t) THEN t
    ELSE sumLoopNoPrior(t, i + 1, t[i])

cumulativeSumNoPrior(t) == sumLoopNoPrior(t, 1, 0)

\* sums aliases tally, so the sum is taken in place
RECURSIVE sumLoop(_, _, _)
sumLoop(t, i, prior) ==
    IF i > Len(t) THEN t
    ELSE sumLoop([t EXCEPT ![i] = t[i] + prior], i + 1, t[i] + prior)

cumulativeSum(t) == sumLoop(t, 1, 0)

\* self.reads += readslist
extendReplaces(list, xs) == xs

extend(list, xs) == list \o xs

\* ---- variants of the depth run used to test the properties below
RECURSIVE addSeq(_, _)
addSeq(a, b) ==
    IF a = <<>> \/ b = <<>> THEN a
    ELSE <<Head(a) + Head(b)>> \o addSeq(Tail(a), Tail(b))

\* stores the tally as it stands when the loop raises
depthRunPartial(rs, old) ==
    LET sorted == sortReads(rs)
        st     == trackLoop(sorted, 1, [tally |-> newTally(sorted), ok |-> TRUE])
    IN  [ok |-> st.ok, reads |-> sorted,
         depths |-> IF st.ok THEN cumulativeSum(st.tally) ELSE st.tally]

\* starts the tally from the stored depths instead of zeros
depthRunOnOld(rs, old) ==
    LET sorted == sortReads(rs)
        st     == trackLoop(sorted, 1, [tally |-> addSeq(newTally(sorted), old), ok |-> TRUE])
    IN  [ok |-> st.ok, reads |-> sorted,
         depths |-> IF st.ok THEN cumulativeSum(st.tally) ELSE old]

\* sizes the tally from the first pair of the list as handed in
depthRunFirstPair(rs, old) ==
    LET sorted == sortReads(rs)
        st     == trackLoop(sorted, 1,
                            [tally |-> newTally(IF rs = <<>> THEN <<>> ELSE <<rs[1]>>),
                             ok |-> TRUE])
    IN  [ok |-> st.ok, reads |-> sorted,
         depths |-> IF st.ok THEN cumulativeSum(st.tally) ELSE old]

\* calculateDepth on a reads list holding rs, with old the stored depths:
\* the list is sorted in place first; self.depths is assigned last
depthRun(rs, old) ==
    LET sorted == sortReads(rs)
        st     == trackLoop(sorted, 1, [tally |-> newTally(sorted), ok |-> TRUE])
    IN  [ok |-> st.ok, reads |-> sorted,
         depths |-> IF st.ok THEN cumulativeSum(st.tally) ELSE old]

\* self.depths[locus]
depthsSubscript(d, k) ==
    IF pyInRange(Len(d), k)
    THEN [ok |-> TRUE, ret |-> d[pyIndex(Len(d), k) + 1]]
    ELSE [ok |-> FALSE, ret |-> 0]

\* ----------------------------------------------------------------- state

getReads(i)  == heap[self[i].reads]
getLoci(i)   == heap[self[i].loci]
getDepths(i) == self[i].depths

\* record of a call: arg is the list handed to addReads, repeat tells that the
\* call before was calculateDepth on the same engine, locus/ret belong to depthAt
call(op, i, ok, repeat, arg, locus, ret) ==
    [op |-> op, inst |-> i, ok |-> ok, repeat |-> repeat, arg |-> arg,
     locus |-> locus, ret |-> ret]

\* __init__(self, reads=[], loci=[]): the default lists are created once, when
\* the function is defined, and every call that omits the argument gets them
construct(E, RI, LI) ==
    \E kind \in [E -> {"default", "explicit"}], r0 \in [E -> RI], l0 \in [E -> LI] :
        /\ heap = [r \in Refs |->
                     IF r[1] \in E /\ kind[r[1]] = "explicit"
                     THEN (IF r[2] = "reads" THEN r0[r[1]] ELSE l0[r[1]])
                     ELSE <<>>]
        /\ self = [i \in E |->
                     [reads  |-> <<IF kind[i] = "default" THEN 0 ELSE i, "reads">>,
                      loci   |-> <<IF kind[i] = "default" THEN 0 ELSE i, "loci">>,
                      depths |-> <<>>]]
        /\ last = call("init", 0, TRUE, FALSE, <<>>, 0, 0)

\* one engine, built on its own lists or on the defaults
Init == construct({1}, ReadLists, {<<>>})

\* two engines, each built on its own lists or on the defaults
InitShared == construct(Engines, SharedReadLists, SharedLociLists)

\* --------------------------------------------------------------- actions

addReads(i, readslist) ==
    /\ Len(getReads(i)) + Len(readslist) <= MaxReads
    /\ heap' = [heap EXCEPT ![self[i].reads] = extend(@, readslist)]
    /\ last' = call("addReads", i, TRUE, FALSE, readslist, 0, 0)
    /\ UNCHANGED self

addLoci(i, locilist) ==
    /\ Len(getLoci(i)) + Len(locilist) <= MaxLoci
    /\ heap' = [heap EXCEPT ![self[i].loci] = extend(@, locilist)]
    /\ last' = call("addLoci", i, TRUE, FALSE, <<>>, 0, 0)
    /\ UNCHANGED self

preprocessReadData(i) ==
    /\ heap' = [heap EXCEPT ![self[i].reads] = sortReads(@)]
    /\ last' = call("preprocessReadData", i, TRUE, FALSE, <<>>, 0, 0)
    /\ UNCHANGED self

calculateDepth(i) ==
    LET run == depthRun(getReads(i), getDepths(i))
    IN  /\ heap' = [heap EXCEPT ![self[i].reads] = run.reads]
        /\ self' = [self EXCEPT ![i].depths = run.depths]
        /\ last' = call("calculateDepth", i, run.ok,
                        last.op = "calculateDepth" /\ last.inst = i, <<>>, 0, 0)

depthAt(i, locus) ==
    LET r == depthsSubscript(getDepths(i), locus)
    IN  /\ last' = call("depthAt", i, r.ok, FALSE, <<>>, locus, r.ret)
        /\ UNCHANGED <<heap, self>>

\* the depth computation on one engine
Next ==
    \E i \in DOMAIN self :
        \/ \E xs \in ReadInputs : addReads(i, xs)
        \/ preprocessReadData(i)
        \/ calculateDepth(i)

\* every operation, on either of two engines
NextShared ==
    \E i \in DOMAIN self :
        \/ \E xs \in SharedReadInputs : addReads(i, xs)
        \/ \E ls \in SharedLociInputs : addLoci(i, ls)
        \/ preprocessReadData(i)
        \/ calculateDepth(i)
        \/ \E k \in QueryLoci : depthAt(i, k)

Spec == Init /\ [][Next]_vars

SpecShared == InitShared /\ [][NextShared]_vars

\* ------------------------------------------------------------ properties

WellFormed(rs) == \A k \in 1..Len(rs) : rs[k][1] >= 0 /\ rs[k][2] >= 0

\* number of intervals (s,l) of rs with s <= p < s+l
CoverCount(rs, p) ==
    Cardinality({k \in 1..Len(rs) : rs[k][1] <= p /\ p < rs[k][1] + rs[k][2]})

Ends(rs) == {rs[k][1] + rs[k][2] : k \in 1..Len(rs)}

\* the largest start+length over rs, 0 when rs is empty
MaxEnd(rs) ==
    IF rs = <<>> THEN 0 ELSE CHOOSE m \in Ends(rs) : \A e \in Ends(rs) : m >= e

IsSorted(rs) ==
    \A k, m \in 1..Len(rs) :
        k < m => \/ rs[k][1] < rs[m][1]
                 \/ (rs[k][1] = rs[m][1] /\ rs[k][2] <= rs[m][2])

Occurrences(rs, x) == Cardinality({k \in 1..Len(rs) : rs[k] = x})

SameMultiset(a, b) ==
    /\ Len(a) = Len(b)
    /\ \A k \in 1..Len(a) : Occurrences(a, a[k]) = Occurrences(b, a[k])

Perms(rs) ==
    {[k \in 1..Len(rs) |-> rs[f[k]]] :
        f \in {g \in [1..Len(rs) -> 1..Len(rs)] :
                  \A a, b \in 1..Len(rs) : g[a] = g[b] => a = b}}

\* the profile with both deltas of every pair applied, in closed form: the
\* prefix sum at p counts the +1 marks at or before p minus the -1 marks
ProfileSize(rs) ==
    1 + (CHOOSE m \in Ends(rs) \cup {0} : \A e \in Ends(rs) \cup {0} : m >= e)

Mark(n, x) == IF x < 0 THEN x + n ELSE x

FullProfile(rs) ==
    LET n == ProfileSize(rs)
    IN  [q \in 1..n |->
            Cardinality({k \in 1..Len(rs) : Mark(n, rs[k][1]) <= q - 1})
          - Cardinality({k \in 1..Len(rs) : Mark(n, rs[k][1] + rs[k][2]) <= q - 1})]

Calculated(i) == last.op = "calculateDepth" /\ last.inst = i

\* C1: after calculateDepth on reads with start >= 0 and length >= 0, the call
\* succeeds and every position p of the profile holds the number of intervals
\* with s <= p < s+l (overlaps and duplicates add up, zero lengths count nowhere)
C1_DepthIsCoverCount ==
    \A i \in DOMAIN self :
        (Calculated(i) /\ WellFormed(getReads(i))) =>
            /\ last.ok
            /\ \A p \in 0 .. (Len(getDepths(i)) - 1) :
                   getDepths(i)[p + 1] = CoverCount(getReads(i), p)

C1_Witness ==
    \E i \in DOMAIN self :
        /\ Calculated(i) /\ last.ok /\ WellFormed(getReads(i))
        /\ \E p \in 1..Len(getDepths(i)) : getDepths(i)[p] >= 2

C3_OutOfRangeFails ==
    \A i \in DOMAIN self :
        (last.op = "depthAt" /\ last.inst = i
            /\ (last.locus < 0 \/ last.locus >= Len(getDepths(i)))) => ~last.ok

\* C4 (as claimed): calculateDepth never completes on reads that hold a pair
\* with start < 0 or length < 0
C4_InvalidIntervalFails ==
    \A i \in DOMAIN self :
        (Calculated(i) /\ ~WellFormed(getReads(i))) => ~last.ok

\* C5: calculateDepth either succeeds and stores the profile with the deltas
\* of every pair applied, or fails and leaves the stored depths as they were
C5_AllOrNothing ==
    [][\A i \in DOMAIN self :
          (last'.op = "calculateDepth" /\ last'.inst = i) =>
              IF last'.ok
              THEN self'[i].depths = FullProfile(heap'[self'[i].reads])
              ELSE self'[i].depths = self[i].depths]_vars

C5_Witness ==
    \E i \in DOMAIN self :
        Calculated(i) /\ ~last.ok /\ getDepths(i) # <<>> /\ getReads(i) # <<>>

\* C6: a calculateDepth that directly follows a calculateDepth on the same
\* engine leaves the same depths
C6_Idempotent ==
    [][\A i \in DOMAIN self :
          (last'.op = "calculateDepth" /\ last'.inst = i /\ last'.repeat) =>
              self'[i].depths = self[i].depths]_vars

C6_Witness ==
    \E i \in DOMAIN self :
        /\ Calculated(i) /\ last.repeat /\ last.ok
        /\ \E p \in 1..Len(getDepths(i)) : getDepths(i)[p] >= 1

\* C7: the depths calculateDepth stored are the depths it yields for every
\* ordering of the same reads (and it fails for all orderings or for none)
C7_OrderInvariant ==
    \A i \in DOMAIN self :
        Calculated(i) =>
            \A q \in Perms(getReads(i)) :
                /\ depthRun(q, <<>>).ok = last.ok
                /\ last.ok => depthRun(q, <<>>).depths = getDepths(i)

C7_Witness ==
    \E i \in DOMAIN self :
        /\ Calculated(i) /\ last.ok
        /\ Len(getReads(i)) >= 2
        /\ getReads(i)[1] # getReads(i)[2]
        /\ \E p \in 1..Len(getDepths(i)) : getDepths(i)[p] >= 1

\* C8 (as claimed): a call on one engine never changes the reads, loci or
\* depths seen through another engine
C8_EnginesIndependent ==
    [][\A i, j \in DOMAIN self :
          (i # j /\ last'.inst = i) =>
              /\ heap'[self'[j].reads] = heap[self[j].reads]
              /\ heap'[self'[j].loci] = heap[self[j].loci]
              /\ self'[j].depths = self[j].depths]_vars

\* C9: addReads(xs) leaves the engine's reads as the old reads followed by xs
\* and leaves its loci and its (possibly stale) depths as they were
C9_AddReadsFrame ==
    [][\A i \in DOMAIN self :
          (last'.op = "addReads" /\ last'.inst = i) =>
              /\ heap'[self'[i].reads] = heap[self[i].reads] \o last'.arg
              /\ heap'[self'[i].loci] = heap[self[i].loci]
              /\ self'[i].depths = self[i].depths]_vars

C9_Witness ==
    \E i \in DOMAIN self :
        /\ last.op = "addReads" /\ last.inst = i
        /\ last.arg # <<>>
        /\ Len(getReads(i)) > Len(last.arg)
        /\ getDepths(i) # <<>>
        /\ getDepths(i) # FullProfile(getReads(i))

\* C10: preprocessReadData, and calculateDepth, leave the reads ascending by
\* start, ties on start ascending by length, with the same multiset of pairs
C10_SortedSameMultiset ==
    [][\A i \in DOMAIN self :
          (last'.op \in {"preprocessReadData", "calculateDepth"} /\ last'.inst = i) =>
              /\ IsSorted(heap'[self'[i].reads])
              /\ SameMultiset(heap[self[i].reads], heap'[self'[i].reads])]_vars

C10_Witness ==
    \E i \in DOMAIN self :
        /\ last.op = "preprocessReadData" /\ last.inst = i
        /\ Len(getReads(i)) >= 2
        /\ getReads(i)[1][1] = getReads(i)[2][1]
        /\ getReads(i)[1][2] < getReads(i)[2][2]

====
